---- MODULE Spec2Model ----
(***************************************************************************)
(* Gasless (ERC-2771) meta-transaction relay of cloudwallet.               *)
(*                                                                         *)
(*   - the ledger: the forwarder's nonce registry, the payment token's     *)
(*     balances and allowances, the forwarder's minPayment                 *)
(*     (TokenPaymentForwarder, MockRecipient);                             *)
(*   - the queue consumer: the Lambda handler and processMetaTransaction   *)
(*     (gasless/infrastructure/lambda/index.js), fed by the SQS queue with *)
(*     its redrive policy.                                                 *)
(*                                                                         *)
(* Token amounts are in the token's base unit (6 decimals), gas prices in  *)
(* gwei.                                                                   *)
(***************************************************************************)
EXTENDS Integers, Sequences, FiniteSets, TLC

VARIABLES
    nonces,      \* forwarder: _nonces[from]
    bal,         \* payment token: balanceOf
    allow,       \* payment token: allowance[<<owner, spender>>]
    minPayment,  \* forwarder: minPayment
    paymentToken, \* forwarder: paymentToken
    lastCall,    \* the transaction sent to the forwarder directly that the ledger last saw
    queue,       \* the SQS queue: one record per message ever sent
    worker,      \* the Lambda invocations: position and locals of each
    orphaned,    \* execute transactions not yet mined whose invocation has ended
    gasBufferFault, \* whether gasPrice.mul(config.gasBuffer) raises
    execCount,   \* history: executions that advanced the nonce, per <<from, nonce>>
    callOk,      \* history: forwarded calls that succeeded, per <<from, nonce>>
    feeCount,    \* history: fee collections, per <<from, nonce>>
    feePaid      \* history: fee amount taken from the signer, per <<from, nonce>>

ledger == <<nonces, bal, allow, minPayment, paymentToken>>
history == <<execCount, callOk, feeCount, feePaid>>
relay == <<queue, worker, orphaned, gasBufferFault>>
vars == <<nonces, bal, allow, minPayment, paymentToken, lastCall, queue, worker, orphaned,
          gasBufferFault, execCount, callOk, feeCount, feePaid>>

----------------------------------------------------------------------------
(* Bounds *)

MaxNonce == 1        \* requests are signed for nonces 0..MaxNonce

(* Program constants *)

MinPaymentConfig == 1000000     \* 1 USDT
TRANSFER_AMOUNT == 10000000     \* 10 USDT
MaxUint256 == 2000000000        \* stands for 2^256 - 1, the unlimited allowance
maxReceiveCount == 3
GasLimit == 300000
ethToUsdRate == 3000

----------------------------------------------------------------------------
(* Parties *)

User == "user"
Mallory == "mallory"
Relayer == "relayer"
Forwarder == "forwarder"
Recipient == "recipient"
Owner == "owner"
Token == "usdt"
OtherToken == "other token"
ZeroAddress == "0x0"

Signers == {User, Mallory}
Holders == {User, Relayer, Forwarder, Recipient, Owner}
Spenders == {Relayer, Forwarder, Recipient}

----------------------------------------------------------------------------
(* Requests and signatures *)

Data == {"receiveTokens", "checkSender"}

ForwardRequest ==
    [from : {User}, to : {Recipient}, value : {0}, gas : {GasLimit},
     nonce : 0..MaxNonce, data : Data]

\* requests whose target is the payment token: transfer(recipient, amount),
\* as the SDK's createForwardRequest encodes them
TokenRequest ==
    [from : {User}, to : {Token}, value : {0}, gas : {GasLimit},
     nonce : 0..MaxNonce, data : {<<"transfer", Recipient, MinPaymentConfig>>}]

\* The EIP-712 domain of the deployed forwarder and the typed-data layout it hashes.
ForwarderDomain ==
    [name |-> "MinimalForwarder", version |-> "0.0.1", chainId |-> 31337,
     verifyingContract |-> Forwarder]

ForwardRequestType == <<"from", "to", "value", "gas", "nonce", "data">>

Field(req, f) ==
    CASE f = "from" -> req.from
      [] f = "to" -> req.to
      [] f = "value" -> req.value
      [] f = "gas" -> req.gas
      [] f = "nonce" -> req.nonce
      [] f = "data" -> req.data
      [] f = "payment" -> req.payment

\* _hashTypedDataV4(keccak256(abi.encode(_TYPEHASH, fields...)))
HashTypedData(domain, type, req) ==
    <<domain, type, [i \in 1..Len(type) |-> Field(req, type[i])]>>

\* signer._signTypedData(domain, types, request)
SignTypedData(signer, domain, type, req) ==
    [signer |-> signer, digest |-> HashTypedData(domain, type, req), form |-> "rsv"]

\* byte strings that are no signature: empty, or of another length than r, s, v
MalformedSignatures ==
    {[signer |-> "nobody", digest |-> <<>>, form |-> f] : f \in {"0x", "short"}}

\* ECDSA.recover reverts on a byte string that is not of the form r, s, v
recoverReverts(signature) == signature.form # "rsv"

\* ECDSA.recover: the key that signed, when the digest is the one signed
Recover(digest, signature) ==
    IF signature.digest = digest THEN signature.signer ELSE "nobody"

\* the signer recovered from the signature over the forwarder's digest of req
signerOf(req, signature) ==
    Recover(HashTypedData(ForwarderDomain, ForwardRequestType, req), signature)

\* verify that compares no nonce
verifyAnyNonce(n, req, signature) ==
    signerOf(req, signature) = req.from

\* verify that also accepts the nonces already consumed
verifyStaleNonce(n, req, signature) ==
    n[req.from] >= req.nonce /\ signerOf(req, signature) = req.from

\* verify(req, signature): _nonces[req.from] == req.nonce && signer == req.from
verify(n, req, signature) ==
    n[req.from] = req.nonce /\ signerOf(req, signature) = req.from

----------------------------------------------------------------------------
(* The payment token (ERC-20) *)

\* transferFrom(sender, recipient, amount) called by spender; reverts (ok = FALSE)
\* allowance(owner, spender): a pair that was never approved reads as zero
allowance(a, owner, spender) ==
    IF <<owner, spender>> \in DOMAIN a THEN a[<<owner, spender>>] ELSE 0

\* on insufficient allowance or balance. An unlimited allowance is not reduced.
transferFrom(b, a, spender, sender, recipient, amount) ==
    IF allowance(a, sender, spender) >= amount /\ b[sender] >= amount
    THEN [ok |-> TRUE,
          bal |-> IF sender = recipient THEN b
                  ELSE [b EXCEPT ![sender] = @ - amount, ![recipient] = @ + amount],
          allow |-> IF a[<<sender, spender>>] = MaxUint256 THEN a
                    ELSE [a EXCEPT ![<<sender, spender>>] = @ - amount]]
    ELSE [ok |-> FALSE, bal |-> b, allow |-> a]

\* transfer(recipient, amount) called by sender
transfer(b, sender, recipient, amount) ==
    IF b[sender] >= amount
    THEN [ok |-> TRUE,
          bal |-> IF sender = recipient THEN b
                  ELSE [b EXCEPT ![sender] = @ - amount, ![recipient] = @ + amount]]
    ELSE [ok |-> FALSE, bal |-> b]

----------------------------------------------------------------------------
(* MockRecipient (ERC2771Context) *)

\* the sender of a recipient that is not forwarder-aware: msg.sender
msgSenderPlain(caller, appended) == caller

\* _msgSender(): the address the trusted forwarder appended to the calldata,
\* the caller itself for any other caller
msgSender(caller, appended) ==
    IF caller = Forwarder THEN appended ELSE caller

\* receiveTokens(amount): token.transferFrom(_msgSender(), address(this), amount)
receiveTokens(b, a, caller, appended, amount) ==
    LET sender == msgSender(caller, appended)
        t == transferFrom(b, a, Recipient, sender, Recipient, amount)
    IN  [ok |-> t.ok, bal |-> t.bal, allow |-> t.allow, sender |-> sender]

\* checkSender(): returns _msgSender()
checkSender(b, a, caller, appended) ==
    [ok |-> TRUE, bal |-> b, allow |-> a, sender |-> msgSender(caller, appended)]

\* req.to.call(abi.encodePacked(req.data, req.from)): the recipient contract
\* reads the appended sender; the token does not, its transfer(recipient,
\* amount) moves the tokens of its caller, the forwarder
forwardCall(b, a, req) ==
    IF req.to = Token
    THEN LET t == transfer(b, Forwarder, req.data[2], req.data[3])
         IN  [ok |-> t.ok, bal |-> t.bal, allow |-> a, sender |-> Forwarder]
    ELSE IF req.data = "receiveTokens"
         THEN receiveTokens(b, a, Forwarder, req.from, TRANSFER_AMOUNT)
         ELSE checkSender(b, a, Forwarder, req.from)

----------------------------------------------------------------------------
(* TokenPaymentForwarder *)

\* MinimalForwarder.execute: the nonce is consumed whenever the signature
\* verifies; a failing forwarded call is reported in `success`, it does not
\* revert the transaction.
execute(n, b, a, req, signature) ==
    IF ~verify(n, req, signature)
    THEN [reverted |-> TRUE, success |-> FALSE, nonces |-> n, bal |-> b, allow |-> a,
          sender |-> "nobody"]
    ELSE LET c == forwardCall(b, a, req)
         IN  [reverted |-> FALSE, success |-> c.ok,
              nonces |-> [n EXCEPT ![req.from] = req.nonce + 1],
              bal |-> c.bal, allow |-> c.allow, sender |-> c.sender]

\* verifyPayment whose floor is one unit too low
verifyPaymentBelowFloor(a, floor, req, payment) ==
    /\ ~(payment + 1 < floor)
    /\ ~(a[<<req.from, Forwarder>>] < payment)

\* verifyPayment(req, paymentInfo): false when the payment is below minPayment
\* or the allowance of req.from toward the forwarder is below the payment
verifyPayment(a, floor, req, payment) ==
    /\ ~(payment < floor)
    /\ ~(a[<<req.from, Forwarder>>] < payment)

\* executeWithPayment that forwards the call without collecting the payment
executeWithoutPayment(n, b, a, floor, req, signature, payment) ==
    LET unchanged == [reverted |-> TRUE, success |-> FALSE, nonces |-> n,
                      bal |-> b, allow |-> a, sender |-> "nobody"]
    IN  IF ~verify(n, req, signature) THEN unchanged
        ELSE IF ~verifyPayment(a, floor, req, payment) THEN unchanged
        ELSE LET e == execute(n, b, a, req, signature)
             IN  IF e.reverted \/ ~e.success THEN unchanged ELSE e

\* executeWithPayment without the require on the forwarded call's success
executeWithPaymentUnchecked(n, b, a, floor, req, signature, payment) ==
    LET unchanged == [reverted |-> TRUE, success |-> FALSE, nonces |-> n,
                      bal |-> b, allow |-> a, sender |-> "nobody"]
    IN  IF ~verify(n, req, signature) THEN unchanged
        ELSE IF ~verifyPayment(a, floor, req, payment) THEN unchanged
        ELSE LET t == transferFrom(b, a, Forwarder, req.from, Forwarder, payment)
             IN  IF ~t.ok THEN unchanged
                 ELSE execute(n, t.bal, t.allow, req, signature)

\* executeWithPayment: any failing require reverts the whole transaction
executeWithPayment(n, b, a, floor, req, signature, payment) ==
    LET unchanged == [reverted |-> TRUE, success |-> FALSE, nonces |-> n,
                      bal |-> b, allow |-> a, sender |-> "nobody"]
    IN  IF ~verify(n, req, signature) THEN unchanged
        ELSE IF ~verifyPayment(a, floor, req, payment) THEN unchanged
        ELSE LET t == transferFrom(b, a, Forwarder, req.from, Forwarder, payment)
             IN  IF ~t.ok THEN unchanged
                 ELSE LET e == execute(n, t.bal, t.allow, req, signature)
                      IN  IF e.reverted \/ ~e.success THEN unchanged ELSE e

----------------------------------------------------------------------------
(* The Lambda consumer: configuration and pure helpers *)

Workers == {1, 2}          \* concurrent invocations of the handler
GasPrices == {1, 2}        \* provider.getGasPrice(), in gwei
MsgIds == {1, 2}           \* messages submitted to the queue

\* calculatePayment(gasLimit, gasPrice): gas cost in ETH, times the fixed rate,
\* plus 10 %, to the token's 6 decimals (toFixed(6) rounds to the nearest unit).
\* gasLimit * gasPrice[gwei] * 10^9 wei / 10^18 * rate * 1.1 * 10^6
\*   = gasLimit * gasPrice * rate * 11 / 10^4
calculatePayment(gasLimit, gasPrice) ==
    (gasLimit * gasPrice * ((ethToUsdRate * 11) \div 100) + 50) \div 100

\* verifyAllowance that reads the allowance of another spender, the call's target
verifyAllowanceOfTarget(a, userAddress, amount) ==
    a[<<userAddress, Recipient>>] >= amount

\* verifyAllowance(userAddress, amount): allowance(userAddress, relayer.address) >= amount
verifyAllowance(a, userAddress, amount) ==
    a[<<userAddress, Relayer>>] >= amount

Signatures(req) ==
    {SignTypedData(s, ForwarderDomain, ForwardRequestType, req) : s \in Signers}

PaymentOffers == {MinPaymentConfig - 1, MinPaymentConfig}

\* JSON.parse(message.body): the request's fields, the signature, the offered payment
Bodies ==
    UNION {[req : {r}, signature : Signatures(r), payment : PaymentOffers] :
           r \in {q \in ForwardRequest : q.data = "receiveTokens"}}

\* a message body that is not JSON text
MalformedBody == [text |-> "not JSON"]

\* JSON.parse(message.body) returns an object
WellFormed(body) == "req" \in DOMAIN body

\* the signature of the message was made by the request's from
GenuinelySigned(body) == signerOf(body.req, body.signature) = body.req.from

\* the bodies of a client that offers the configured minimum
FloorBodies == {b \in Bodies : b.payment = MinPaymentConfig}

\* the relayer's secret key and its ciphertext in ENCRYPTED_PRIVATE_KEY
RelayerSecret == "relayer secret key"
ENCRYPTED_PRIVATE_KEY == [encrypted |-> RelayerSecret]

\* kms.decrypt({CiphertextBlob}): the custodian returns the plaintext
decrypt(CiphertextBlob) == [Plaintext |-> CiphertextBlob.encrypted]

\* getRelayerKey(): new ethers.Wallet(Plaintext.toString(), provider), a signer
\* that holds the secret key in the function's memory
getRelayerKey == [privateKey |-> decrypt(ENCRYPTED_PRIVATE_KEY).Plaintext]

\* no wallet in scope
noWallet == [privateKey |-> "none"]

idleWorker ==
    [pc |-> "idle", batch |-> <<>>, i |-> 0, valid |-> FALSE, hasAllowance |-> FALSE,
     gasPrice |-> 0, requiredPayment |-> 0, results |-> <<>>, relayer |-> noWallet,
     statusCode |-> 200]

\* the record the invocation is handling
Msg(w) == worker[w].batch[worker[w].i]
Body(w) == queue[Msg(w)].body
Key(req) == <<req.from, req.nonce>>
Keys == {User} \X (0..MaxNonce)

RECURSIVE SetToSeq(_)
SetToSeq(S) ==
    IF S = {} THEN <<>>
    ELSE LET m == CHOOSE x \in S : \A y \in S : x <= y
         IN  <<m>> \o SetToSeq(S \ {m})

Visible(m) == queue[m].status = "visible" /\ queue[m].receiveCount < maxReceiveCount

\* what the signer holds when the first request is signed: enough for one
\* transfer and its fee, or for two
InitialBalances ==
    {TRANSFER_AMOUNT + MinPaymentConfig, 2 * (TRANSFER_AMOUNT + MinPaymentConfig)}

----------------------------------------------------------------------------
Init ==
    /\ nonces = [s \in Signers |-> 0]
    /\ \E initial \in InitialBalances :
          bal = [h \in Holders |-> IF h = User THEN initial ELSE 0]
    /\ allow = [p \in {User} \X Spenders |-> IF p[2] = Recipient THEN MaxUint256 ELSE 0]
    /\ minPayment = MinPaymentConfig
    /\ \E _paymentToken \in {ZeroAddress, Token} :
          _paymentToken # ZeroAddress /\ paymentToken = _paymentToken
    /\ lastCall = [op |-> "none"]
    /\ queue = <<>>
    /\ worker = [w \in Workers |-> idleWorker]
    /\ orphaned = {}
    /\ gasBufferFault \in BOOLEAN
    /\ execCount = [k \in Keys |-> 0]
    /\ callOk = [k \in Keys |-> 0]
    /\ feeCount = [k \in Keys |-> 0]
    /\ feePaid = [k \in Keys |-> 0]

----------------------------------------------------------------------------
(* The queue *)

\* a client submits a signed request (sqs.sendMessage); required is the payment
\* threshold the message last passed at line 92, none (0) so far
Send(body) ==
    /\ Len(queue) + 1 \in MsgIds
    /\ queue' = Append(queue, [body |-> body, status |-> "visible", receiveCount |-> 0,
                               required |-> 0])
    /\ UNCHANGED <<ledger, history, lastCall, worker, orphaned, gasBufferFault>>

\* a redrive policy that gives up one receive early
RedriveEarly(m) ==
    /\ m \in DOMAIN queue
    /\ queue[m].status = "visible"
    /\ queue[m].receiveCount >= maxReceiveCount - 1
    /\ queue' = [queue EXCEPT ![m].status = "dlq"]
    /\ UNCHANGED <<ledger, history, lastCall, worker, orphaned, gasBufferFault>>

\* redrive policy: a message received maxReceiveCount times goes to the
\* dead-letter queue instead of being delivered again
Redrive(m) ==
    /\ m \in DOMAIN queue
    /\ queue[m].status = "visible"
    /\ queue[m].receiveCount >= maxReceiveCount
    /\ queue' = [queue EXCEPT ![m].status = "dlq"]
    /\ UNCHANGED <<ledger, history, lastCall, worker, orphaned, gasBufferFault>>

\* the event source hands a batch of visible messages to an invocation of
\* exports.handler (lines 126-131); they stay invisible while it runs
Receive(w, S) ==
    /\ worker[w].pc = "idle"
    /\ S # {}
    /\ \A m \in S : m \in DOMAIN queue /\ Visible(m)
    /\ queue' = [m \in DOMAIN queue |->
                    IF m \in S
                    THEN [queue[m] EXCEPT !.status = "inflight",
                                          !.receiveCount = @ + 1]
                    ELSE queue[m]]
    /\ worker' = [worker EXCEPT ![w] =
                    [idleWorker EXCEPT !.pc = "verify", !.batch = SetToSeq(S), !.i = 1]]
    /\ UNCHANGED <<ledger, history, lastCall, orphaned, gasBufferFault>>

\* a queue whose in-flight messages never become visible again
ReleasedNever(w) == queue

\* the messages of the batch that were not deleted become visible again once
\* the invocation is over (visibility timeout)
Released(w) ==
    [m \in DOMAIN queue |->
        IF queue[m].status = "inflight"
           /\ \E j \in 1..Len(worker[w].batch) : worker[w].batch[j] = m
        THEN [queue[m] EXCEPT !.status = "visible"]
        ELSE queue[m]]

----------------------------------------------------------------------------
(* The handler's loop *)

\* after the record at i: the next record, or the return at line 152
Advance(wk) ==
    IF wk.i < Len(wk.batch)
    THEN [wk EXCEPT !.pc = "verify", !.i = @ + 1, !.valid = FALSE,
                    !.hasAllowance = FALSE, !.gasPrice = 0, !.requiredPayment = 0,
                    !.relayer = noWallet]
    ELSE [wk EXCEPT !.pc = "return", !.relayer = noWallet]

\* a catch that acknowledges the message of the failed record
CatchDeletes(w, reason) ==
    /\ queue' = [queue EXCEPT ![Msg(w)].status = "deleted"]
    /\ worker' = [worker EXCEPT ![w] =
                    Advance([worker[w] EXCEPT !.results =
                                Append(@, [m |-> Msg(w), error |-> reason])])]

\* catch (error) of the record (lines 145-149): the error is logged and pushed
\* to results; the message is not deleted
Catch(w, reason) ==
    /\ UNCHANGED queue
    /\ worker' = [worker EXCEPT ![w] =
                    Advance([worker[w] EXCEPT !.results =
                                Append(@, [m |-> Msg(w), error |-> reason])])]

\* getRelayerKey (lines 31-37, called at lines 71 and 48): kms.decrypt rejects
KmsUnavailable(w) ==
    /\ worker[w].pc \in {"verify", "allowance"}
    /\ WellFormed(Body(w))
    /\ Catch(w, "CustodianUnavailable")
    /\ UNCHANGED <<ledger, history, lastCall, orphaned, gasBufferFault>>

\* line 132: JSON.parse(message.body) raises outside the record's try block;
\* the handler's outer catch (lines 157-163) ends the invocation with status
\* 500 and no results, whatever was handled before and whatever is left
ParseFails(w) ==
    /\ worker[w].pc = "verify"
    /\ ~WellFormed(Body(w))
    /\ worker' = [worker EXCEPT ![w].pc = "return", ![w].results = <<>>,
                                ![w].statusCode = 500]
    /\ UNCHANGED <<ledger, history, lastCall, queue, orphaned, gasBufferFault>>

\* lines 71-82: forwarderContract.verify, throw on !valid
Verify(w) ==
    /\ worker[w].pc = "verify"
    /\ WellFormed(Body(w))
    /\ LET valid == verify(nonces, Body(w).req, Body(w).signature)
       IN  IF valid
           THEN /\ worker' = [worker EXCEPT ![w].pc = "allowance", ![w].valid = valid,
                                            ![w].relayer = getRelayerKey]
                /\ UNCHANGED queue
           ELSE Catch(w, "Invalid signature")
    /\ UNCHANGED <<ledger, history, lastCall, orphaned, gasBufferFault>>

\* lines 84-95: getGasPrice, calculatePayment, verifyAllowance, throw on !hasAllowance
CheckAllowance(w, gasPrice) ==
    /\ worker[w].pc = "allowance"
    /\ LET requiredPayment == calculatePayment(Body(w).req.gas, gasPrice)
           hasAllowance == verifyAllowance(allow, Body(w).req.from, requiredPayment)
       IN  IF hasAllowance
           THEN /\ worker' = [worker EXCEPT ![w].pc = "execute",
                                            ![w].hasAllowance = hasAllowance,
                                            ![w].gasPrice = gasPrice,
                                            ![w].requiredPayment = requiredPayment]
                /\ queue' = [queue EXCEPT ![Msg(w)].required = requiredPayment]
           ELSE Catch(w, "Insufficient USDT allowance")
    /\ UNCHANGED <<ledger, history, lastCall, orphaned, gasBufferFault>>

\* lines 98-105: gasPrice.mul(config.gasBuffer) is evaluated before the call;
\* a BigNumber that rejects the fractional 1.1 raises and nothing is submitted
GasBufferRaises(w) ==
    /\ worker[w].pc = "execute"
    /\ gasBufferFault
    /\ Catch(w, "underflow")
    /\ UNCHANGED <<ledger, history, lastCall, orphaned, gasBufferFault>>

\* the execute transaction of this delivery: execute(req, signature)
Tx(w) == [req |-> Body(w).req, signature |-> Body(w).signature]

\* lines 98-105: the execute transaction is sent
SubmitExecute(w) ==
    /\ worker[w].pc = "execute"
    /\ ~gasBufferFault
    /\ worker' = [worker EXCEPT ![w].pc = "wait"]
    /\ UNCHANGED <<ledger, history, lastCall, queue, orphaned, gasBufferFault>>

\* execute(req, signature) runs on the ledger
Mined(tx) ==
    LET e == execute(nonces, bal, allow, tx.req, tx.signature)
    IN  /\ nonces' = e.nonces
        /\ bal' = e.bal
        /\ allow' = e.allow
        /\ execCount' = [execCount EXCEPT ![Key(tx.req)] = IF e.reverted THEN @ ELSE @ + 1]
        /\ callOk' = [callOk EXCEPT ![Key(tx.req)] = IF e.success THEN @ + 1 ELSE @]
        /\ lastCall' = [op |-> "none"]
        /\ UNCHANGED <<minPayment, paymentToken, feeCount, feePaid, gasBufferFault>>

\* the transaction of a running invocation is mined: tx.wait() (line 108)
\* resolves with the receipt, or rejects when the transaction reverted
Mine(w) ==
    /\ worker[w].pc = "wait"
    /\ Mined(Tx(w))
    /\ IF execute(nonces, bal, allow, Tx(w).req, Tx(w).signature).reverted
       THEN Catch(w, "transaction failed")
       ELSE /\ worker' = [worker EXCEPT ![w].pc = "collect"]
            /\ UNCHANGED queue
    /\ UNCHANGED orphaned

\* a transaction is mined after the invocation that sent it has ended
MineOrphaned(tx) ==
    /\ tx \in orphaned
    /\ Mined(tx)
    /\ orphaned' = orphaned \ {tx}
    /\ UNCHANGED <<queue, worker>>

\* lines 110-123: usdtContract.transferFrom(metaTx.from, relayer.address,
\* requiredPayment); on success the result is returned, logged and pushed (136-137)
CollectPayment(w) ==
    /\ worker[w].pc = "collect"
    /\ LET req == Body(w).req
           t == transferFrom(bal, allow, Relayer, req.from, Relayer,
                             worker[w].requiredPayment)
       IN  IF t.ok
           THEN /\ bal' = t.bal
                /\ allow' = t.allow
                /\ feeCount' = [feeCount EXCEPT ![Key(req)] = @ + 1]
                /\ feePaid' = [feePaid EXCEPT ![Key(req)] = @ + worker[w].requiredPayment]
                /\ worker' = [worker EXCEPT ![w].pc = "delete",
                                ![w].results = Append(@, [m |-> Msg(w), error |-> "none"])]
                /\ UNCHANGED queue
           ELSE /\ Catch(w, "payment failed")
                /\ UNCHANGED <<bal, allow, feeCount, feePaid>>
    /\ lastCall' = [op |-> "none"]
    /\ UNCHANGED <<nonces, minPayment, paymentToken, execCount, callOk, orphaned, gasBufferFault>>

\* lines 139-143: sqs.deleteMessage for the processed record
DeleteMessage(w) ==
    /\ worker[w].pc = "delete"
    /\ queue' = [queue EXCEPT ![Msg(w)].status = "deleted"]
    /\ worker' = [worker EXCEPT ![w] = Advance(worker[w])]
    /\ UNCHANGED <<ledger, history, lastCall, orphaned, gasBufferFault>>

\* sqs.deleteMessage rejects: the catch of the same try block runs
DeleteFails(w) ==
    /\ worker[w].pc = "delete"
    /\ Catch(w, "delete failed")
    /\ UNCHANGED <<ledger, history, lastCall, orphaned, gasBufferFault>>

\* lines 152-155: the handler returns the results
Return(w) ==
    /\ worker[w].pc = "return"
    /\ queue' = Released(w)
    /\ worker' = [worker EXCEPT ![w] = idleWorker]
    /\ UNCHANGED <<ledger, history, lastCall, orphaned, gasBufferFault>>

\* the invocation ends without returning (the function's timeout while it
\* awaits the ledger, a crash of the runtime)
Crash(w) ==
    /\ worker[w].pc \notin {"idle", "return"}
    /\ queue' = Released(w)
    /\ worker' = [worker EXCEPT ![w] = idleWorker]
    /\ orphaned' = IF worker[w].pc = "wait" THEN orphaned \cup {Tx(w)} ELSE orphaned
    /\ UNCHANGED <<ledger, history, lastCall, gasBufferFault>>

\* the signer sets a spender's allowance (token.approve)
Approve(spender, amount) ==
    /\ allow[<<User, spender>>] # amount
    /\ allow' = [allow EXCEPT ![<<User, spender>>] = amount]
    /\ lastCall' = [op |-> "none"]
    /\ UNCHANGED <<nonces, bal, minPayment, paymentToken, history, relay>>

\* the consumer with invocations W, fed with the bodies B at the gas prices G,
\* one record per batch
Relay(W, B, G) ==
    \/ \E body \in B : Send(body)
    \/ \E m \in MsgIds : Redrive(m)
    \/ \E w \in W, m \in MsgIds :
          /\ \A v \in W : worker[v].pc = "idle" => ~(v < w)
          /\ Receive(w, {m})
    \/ \E w \in W : KmsUnavailable(w)
    \/ \E w \in W : Verify(w)
    \/ \E w \in W, gasPrice \in G : CheckAllowance(w, gasPrice)
    \/ \E w \in W : GasBufferRaises(w)
    \/ \E w \in W : SubmitExecute(w)
    \/ \E w \in W : Mine(w)
    \/ \E tx \in orphaned : MineOrphaned(tx)
    \/ \E w \in W : CollectPayment(w)
    \/ \E w \in W : DeleteMessage(w)
    \/ \E w \in W : DeleteFails(w)
    \/ \E w \in W : Return(w)
    \/ \E w \in W : Crash(w)
    \/ \E amount \in {0, MaxUint256} : Approve(Relayer, amount)

----------------------------------------------------------------------------
(* Transactions sent to the forwarder directly *)

Callers == {Owner, Mallory}
MinPayments == {MinPaymentConfig - 1, MinPaymentConfig}
DirectOffers == {0, MinPaymentConfig - 1, MinPaymentConfig}

\* the balances and allowances of a token: bal and allow are those of the
\* USDT token; in any other token nobody of the model holds or has approved
\* anything
balanceOf(token) == IF token = Token THEN bal ELSE [h \in DOMAIN bal |-> 0]
allowanceOf(token) == IF token = Token THEN allow ELSE [p \in DOMAIN allow |-> 0]

\* anyone (the test's relayer) calls executeWithPayment(req, signature, paymentInfo)
CallExecuteWithPayment(req, signature, payment) ==
    LET e == executeWithPayment(nonces, balanceOf(paymentToken),
                                allowanceOf(paymentToken), minPayment, req, signature,
                                payment)
    IN  /\ nonces' = e.nonces
        /\ bal' = IF e.reverted THEN bal ELSE e.bal
        /\ allow' = IF e.reverted THEN allow ELSE e.allow
        /\ execCount' = [execCount EXCEPT ![Key(req)] = IF e.reverted THEN @ ELSE @ + 1]
        /\ callOk' = [callOk EXCEPT ![Key(req)] = IF e.reverted THEN @ ELSE @ + 1]
        /\ feeCount' = [feeCount EXCEPT ![Key(req)] = IF e.reverted THEN @ ELSE @ + 1]
        /\ feePaid' = [feePaid EXCEPT ![Key(req)] = IF e.reverted THEN @ ELSE @ + payment]
        /\ lastCall' = [op |-> "executeWithPayment", req |-> req,
                        signature |-> signature, payment |-> payment,
                        reverted |-> e.reverted, sender |-> e.sender]
        /\ UNCHANGED <<minPayment, paymentToken, relay>>

\* anyone calls the inherited execute(req, signature): no payment is involved
CallExecute(req, signature) ==
    LET e == execute(nonces, bal, allow, req, signature)
    IN  /\ nonces' = e.nonces
        /\ bal' = e.bal
        /\ allow' = e.allow
        /\ execCount' = [execCount EXCEPT ![Key(req)] = IF e.reverted THEN @ ELSE @ + 1]
        /\ callOk' = [callOk EXCEPT ![Key(req)] = IF e.success THEN @ + 1 ELSE @]
        /\ lastCall' = [op |-> "execute", req |-> req, signature |-> signature,
                        reverted |-> e.reverted, sender |-> e.sender]
        /\ UNCHANGED <<minPayment, paymentToken, feeCount, feePaid, relay>>

\* caller calls the recipient's checkSender() directly, with any address
\* appended to the calldata
CallCheckSender(caller, appended) ==
    /\ lastCall' = [op |-> "checkSender", caller |-> caller,
                    sender |-> checkSender(bal, allow, caller, appended).sender]
    /\ UNCHANGED <<ledger, history, relay>>

\* setMinPayment(_minPayment) external onlyOwner
SetMinPayment(caller, newAmount) ==
    /\ minPayment' = IF caller = Owner THEN newAmount ELSE minPayment
    /\ lastCall' = [op |-> "setMinPayment", caller |-> caller, reverted |-> caller # Owner]
    /\ UNCHANGED <<nonces, bal, allow, paymentToken, history, relay>>

\* setPaymentToken that accepts the zero address
SetPaymentTokenUnchecked(caller, _paymentToken) ==
    /\ paymentToken' = IF caller = Owner THEN _paymentToken ELSE paymentToken
    /\ lastCall' = [op |-> "setPaymentToken", caller |-> caller, token |-> _paymentToken,
                    reverted |-> caller # Owner]
    /\ UNCHANGED <<nonces, bal, allow, minPayment, history, relay>>

\* setPaymentToken(_paymentToken) external onlyOwner, rejects the zero address
SetPaymentToken(caller, _paymentToken) ==
    LET ok == caller = Owner /\ _paymentToken # ZeroAddress
    IN  /\ paymentToken' = IF ok THEN _paymentToken ELSE paymentToken
        /\ lastCall' = [op |-> "setPaymentToken", caller |-> caller,
                        token |-> _paymentToken, reverted |-> ~ok]
        /\ UNCHANGED <<nonces, bal, allow, minPayment, history, relay>>

\* withdrawPayments(recipient, amount) external onlyOwner
WithdrawPayments(caller, recipient, amount) ==
    LET ok == /\ caller = Owner
              /\ recipient # ZeroAddress
              /\ transfer(balanceOf(paymentToken), Forwarder, recipient, amount).ok
    IN  /\ bal' = IF ok /\ paymentToken = Token
                  THEN transfer(bal, Forwarder, recipient, amount).bal ELSE bal
        /\ lastCall' = [op |-> "withdrawPayments", caller |-> caller,
                        recipient |-> recipient, reverted |-> ~ok]
        /\ UNCHANGED <<nonces, allow, minPayment, paymentToken, history, relay>>

Direct ==
    \/ \E req \in ForwardRequest, payment \in DirectOffers :
          \E signature \in Signatures(req) : CallExecuteWithPayment(req, signature, payment)
    \/ \E req \in ForwardRequest :
          \E signature \in Signatures(req) : CallExecute(req, signature)
    \/ \E caller \in {User, Relayer}, appended \in Signers :
          CallCheckSender(caller, appended)
    \/ \E caller \in Callers, newAmount \in MinPayments : SetMinPayment(caller, newAmount)
    \/ \E caller \in Callers, amount \in {MinPaymentConfig} :
          WithdrawPayments(caller, Owner, amount)
    \/ \E amount \in {0, MinPaymentConfig, MaxUint256} : Approve(Forwarder, amount)

----------------------------------------------------------------------------
(* The client SDK (GaslessTransactionSDK) and the message it submits *)

SdkPayments == {MinPaymentConfig, 2 * MinPaymentConfig}

\* getDomainData()
SdkDomain ==
    [name |-> "TokenPaymentForwarder", version |-> "0.0.1", chainId |-> 31337,
     verifyingContract |-> Forwarder]

\* the types handed to _signTypedData by signRequest
SdkRequestType == <<"from", "to", "value", "gas", "nonce", "data", "payment">>

\* createForwardRequest(recipient, amount, payment): a token transfer carrying
\* the nonce read from the forwarder; the decimal strings of value, gas, nonce
\* and payment are kept as the numbers they encode to
createForwardRequest(n, from, payment) ==
    [from |-> from, to |-> Token, value |-> 0, gas |-> GasLimit,
     nonce |-> n[from], data |-> <<"transfer", Recipient, TRANSFER_AMOUNT>>,
     payment |-> payment]

\* signRequest(request)
signRequest(signer, request) ==
    SignTypedData(signer, SdkDomain, SdkRequestType, request)

\* JSON.stringify({request, signature}): the text as its members in order, the
\* nested object as its own members
JSONstringify(request, signature) ==
    << <<"request", [i \in 1..Len(SdkRequestType) |->
                        <<SdkRequestType[i], Field(request, SdkRequestType[i])>>]>>,
       <<"signature", signature>> >>

\* the object of a sequence of members
ParseObject(members) ==
    [k \in {members[i][1] : i \in DOMAIN members} |->
        LET i == CHOOSE j \in DOMAIN members : members[j][1] = k IN members[i][2]]

\* JSON.parse(message.body)
JSONparse(text) ==
    LET top == ParseObject(text)
    IN  [k \in DOMAIN top |-> IF k = "request" THEN ParseObject(top[k]) ELSE top[k]]

\* the properties of metaTx that processMetaTransaction reads
ConsumerFields == {"from", "to", "value", "gas", "nonce", "data", "signature"}

\* metaTx.<key>: undefined when the object has no such property
Read(metaTx, key) ==
    IF key \in DOMAIN metaTx THEN metaTx[key] ELSE "undefined"

\* transferUSDT(recipient, amount, payment): balance check, approval of the
\* forwarder when the allowance is short, then request, signature and submission
TransferUSDT(payment) ==
    LET totalAmount == TRANSFER_AMOUNT + payment
        request == createForwardRequest(nonces, User, payment)
        signature == signRequest(User, request)
    IN  /\ IF bal[User] < totalAmount
           THEN /\ lastCall' = [op |-> "transferUSDT",
                                error |-> "Insufficient USDT balance"]
                /\ UNCHANGED allow
           ELSE /\ allow' = IF allowance(allow, User, Forwarder) < totalAmount
                            THEN [allow EXCEPT ![<<User, Forwarder>>] = totalAmount]
                            ELSE allow
                /\ lastCall' = [op |-> "submitToRelayer", request |-> request,
                                signature |-> signature,
                                body |-> JSONstringify(request, signature)]
        /\ UNCHANGED <<nonces, bal, minPayment, paymentToken, history, relay>>

\* the consumer handles the submitted message: JSON.parse, then the reads of
\* processMetaTransaction and its verify call
ProcessSubmitted ==
    /\ lastCall.op = "submitToRelayer"
    /\ LET metaTx == JSONparse(lastCall.body)
           present == ConsumerFields \cap DOMAIN metaTx
       IN  lastCall' =
               [op |-> "processMetaTransaction",
                request |-> lastCall.request, signature |-> lastCall.signature,
                present |-> present,
                read |-> [f \in ConsumerFields |-> Read(metaTx, f)],
                valid |-> /\ present = ConsumerFields
                          /\ verify(nonces, [f \in ConsumerFields \ {"signature"} |->
                                                 metaTx[f]], metaTx["signature"])]
    /\ UNCHANGED <<ledger, history, relay>>

Client ==
    \/ \E payment \in SdkPayments : TransferUSDT(payment)
    \/ ProcessSubmitted

\* forwarderContract.verify(req, signature) as a call (index.js:74-78): the
\* view function returns its value, or the call is rejected when the recovery
\* reverts
CallVerify(req, signature) ==
    /\ lastCall' = [op |-> "verify", req |-> req, signature |-> signature,
                    raised |-> recoverReverts(signature),
                    valid |-> ~recoverReverts(signature) /\ verify(nonces, req, signature)]
    /\ UNCHANGED <<ledger, history, relay>>

----------------------------------------------------------------------------
(* Specifications *)

\* the relay: two concurrent invocations consuming the queue
Next == Relay(Workers, FloorBodies, {1})

Spec == Init /\ [][Next]_vars

\* the forwarder called directly
NextForwarder == Direct

SpecForwarder == Init /\ [][NextForwarder]_vars

\* one invocation, fed with any payment offer at any gas price
NextOffers == Relay({1}, Bodies, GasPrices)

SpecOffers == Init /\ [][NextOffers]_vars

\* the client in front of the forwarder: requests made by the SDK, requests
\* executed directly, approvals of the forwarder
NextClient ==
    \/ Client
    \/ \E req \in ForwardRequest :
          \E signature \in Signatures(req) : CallExecute(req, signature)
    \/ \E amount \in {0, MaxUint256} : Approve(Forwarder, amount)
    \/ \E req \in ForwardRequest :
          \E signature \in Signatures(req) \cup MalformedSignatures :
              CallVerify(req, signature)

SpecClient == Init /\ [][NextClient]_vars

\* the forwarder's fee account: payments collected by executeWithPayment for
\* requests to the recipient contract and to the token, withdrawals, approvals
NextFees ==
    \/ \E req \in ForwardRequest \cup TokenRequest :
          \E signature \in Signatures(req) :
              CallExecuteWithPayment(req, signature, MinPaymentConfig)
    \/ \E caller \in Callers : WithdrawPayments(caller, Owner, MinPaymentConfig)
    \/ \E amount \in {0, MaxUint256} : Approve(Forwarder, amount)

SpecFees == Init /\ [][NextFees]_vars

\* the forwarder's administration by the owner and by another caller, next to
\* payments that fill the fee account
NextAdmin ==
    \/ \E req \in ForwardRequest :
          CallExecuteWithPayment(req, SignTypedData(User, ForwarderDomain,
                                                    ForwardRequestType, req),
                                 MinPaymentConfig)
    \/ \E caller \in Callers, newAmount \in MinPayments : SetMinPayment(caller, newAmount)
    \/ \E caller \in Callers, token \in {ZeroAddress, Token, OtherToken} :
          SetPaymentToken(caller, token)
    \/ \E caller \in Callers, recipient \in {Owner, ZeroAddress} :
          WithdrawPayments(caller, recipient, MinPaymentConfig)
    \/ \E amount \in {0, MaxUint256} : Approve(Forwarder, amount)

SpecAdmin == Init /\ [][NextAdmin]_vars

\* one invocation that receives batches of one or two records, among them
\* bodies that are not JSON
BatchBodies == {b \in FloorBodies : GenuinelySigned(b)} \cup {MalformedBody}

NextBatch ==
    \/ \E body \in BatchBodies : Send(body)
    \/ \E m \in MsgIds : Redrive(m)
    \/ \E S \in SUBSET MsgIds : Receive(1, S)
    \/ ParseFails(1)
    \/ Verify(1)
    \/ CheckAllowance(1, 1)
    \/ GasBufferRaises(1)
    \/ SubmitExecute(1)
    \/ Mine(1)
    \/ CollectPayment(1)
    \/ DeleteMessage(1)
    \/ DeleteFails(1)
    \/ Return(1)
    \/ \E amount \in {0, MaxUint256} : Approve(Relayer, amount)

SpecBatch == Init /\ [][NextBatch]_vars

\* the relay while the key custodian is unavailable: every delivery fails in
\* getRelayerKey, before anything is sent to the ledger
NextCustodian ==
    \/ \E body \in FloorBodies : Send(body)
    \/ \E m \in MsgIds : Redrive(m)
    \/ \E w \in Workers, m \in MsgIds :
          /\ \A v \in Workers : worker[v].pc = "idle" => ~(v < w)
          /\ Receive(w, {m})
    \/ \E w \in Workers : worker[w].pc = "verify" /\ KmsUnavailable(w)
    \/ \E w \in Workers : Return(w)

SpecCustodian == Init /\ [][NextCustodian]_vars

\* the relay in front of a ledger that never confirms within the function's
\* timeout: the signer has approved the relayer, every request is genuinely
\* signed for the current nonce, and every delivery ends in the timeout while
\* the handler awaits tx.wait()
InitTimeout ==
    /\ nonces = [s \in Signers |-> 0]
    /\ \E initial \in InitialBalances :
          bal = [h \in Holders |-> IF h = User THEN initial ELSE 0]
    /\ allow = [p \in {User} \X Spenders |-> IF p[2] = Forwarder THEN 0 ELSE MaxUint256]
    /\ minPayment = MinPaymentConfig
    /\ \E _paymentToken \in {ZeroAddress, Token} :
          _paymentToken # ZeroAddress /\ paymentToken = _paymentToken
    /\ lastCall = [op |-> "none"]
    /\ queue = <<>>
    /\ worker = [w \in Workers |-> idleWorker]
    /\ orphaned = {}
    /\ gasBufferFault = FALSE
    /\ execCount = [k \in Keys |-> 0]
    /\ callOk = [k \in Keys |-> 0]
    /\ feeCount = [k \in Keys |-> 0]
    /\ feePaid = [k \in Keys |-> 0]

TimeoutBodies == {b \in FloorBodies : GenuinelySigned(b) /\ b.req.nonce = 0}

NextTimeout ==
    \/ \E body \in TimeoutBodies : Send(body)
    \/ \E m \in MsgIds : Redrive(m)
    \/ \E w \in Workers, m \in MsgIds :
          /\ \A v \in Workers : worker[v].pc = "idle" => ~(v < w)
          /\ Receive(w, {m})
    \/ \E w \in Workers : Verify(w)
    \/ \E w \in Workers, gasPrice \in GasPrices : CheckAllowance(w, gasPrice)
    \/ \E w \in Workers : SubmitExecute(w)
    \/ \E w \in Workers : worker[w].pc = "wait" /\ Crash(w)

SpecTimeout == InitTimeout /\ [][NextTimeout]_vars

\* fair delivery: the queue keeps delivering a visible message and applies its
\* redrive policy; a running invocation takes its next step, the ledger mining
\* the transaction it awaits, unless it ends first
FairDelivery(W) ==
    /\ \A m \in MsgIds :
          WF_vars(\E w \in W :
                     /\ \A v \in W : worker[v].pc = "idle" => ~(v < w)
                     /\ Receive(w, {m}))
    /\ \A m \in MsgIds : WF_vars(Redrive(m))
    /\ \A w \in W :
          WF_vars(\/ Verify(w)
                  \/ CheckAllowance(w, 1)
                  \/ GasBufferRaises(w)
                  \/ SubmitExecute(w)
                  \/ Mine(w)
                  \/ CollectPayment(w)
                  \/ DeleteMessage(w)
                  \/ Return(w))

\* one invocation at a time consuming the queue, under fair delivery
NextFair == Relay({1}, FloorBodies, {1})

SpecFair == Init /\ [][NextFair]_vars /\ FairDelivery({1})

----------------------------------------------------------------------------
(* Properties *)

\* the result entries the running invocations have pushed so far
Results ==
    UNION {{worker[w].results[j] : j \in DOMAIN worker[w].results} : w \in Workers}

\* the request of the message a result entry is about
ResultReq(r) == queue[r.m].body.req

\* C1: however often one signed request is delivered, to concurrent
\* invocations or again after a failed one, the ledger sees at most one
\* execution, at most one successful forwarded call and at most one fee
\* collection per (from, nonce).
NoDuplicateSettlement ==
    \A k \in Keys : execCount[k] <= 1 /\ callOk[k] <= 1 /\ feeCount[k] <= 1

\* a request is settled and the execute transaction of another delivery of it
\* has reverted on the ledger
DuplicateDeliveryReverted ==
    \E r \in Results :
        /\ r.error = "transaction failed"
        /\ callOk[Key(ResultReq(r))] = 1
        /\ feeCount[Key(ResultReq(r))] = 1

RECURSIVE SuccessfulExecutions(_, _)
\* the forwarded executions of from that succeeded, over the nonces 0..n
SuccessfulExecutions(from, n) ==
    IF n < 0 THEN 0 ELSE callOk[<<from, n>>] + SuccessfulExecutions(from, n - 1)

\* C2: the registry's nonce of an identity is its initial nonce (0) plus the
\* number of its successful executions; an execution that failed leaves it
\* where it was.
NonceMonotonicity ==
    nonces[User] = SuccessfulExecutions(User, MaxNonce)

\* C3: verify is false for every request whose nonce is not the registry's
\* current one, whoever signed it; a delivery passes verification only while
\* its (from, nonce) has not been executed, and nothing is executed twice.
IdempotentVerification ==
    /\ [](\A req \in ForwardRequest : \A signature \in Signatures(req) :
             req.nonce # nonces[req.from] => ~verify(nonces, req, signature))
    /\ [](\A k \in Keys : execCount[k] <= 1)
    /\ [][\A w \in Workers :
             worker[w].pc = "verify" /\ worker'[w].pc = "allowance"
                 => execCount[Key(Body(w).req)] = 0]_vars

\* a genuinely signed request that is settled was delivered again and rejected
\* by the verification
RedeliveryRejected ==
    \E r \in Results :
        /\ r.error = "Invalid signature"
        /\ GenuinelySigned(queue[r.m].body)
        /\ callOk[Key(ResultReq(r))] = 1
        /\ feeCount[Key(ResultReq(r))] = 1

\* C4: verifyPayment is false for every payment below minPayment and true for
\* payment = minPayment once the allowance covers it; executeWithPayment with a
\* payment below minPayment reverts and changes nothing on the ledger.
PaymentFloor ==
    /\ [](\A req \in ForwardRequest : \A payment \in DirectOffers \cup {minPayment - 1} :
             payment < minPayment => ~verifyPayment(allow, minPayment, req, payment))
    /\ [](\A req \in ForwardRequest :
             allow[<<req.from, Forwarder>>] >= minPayment
                 => verifyPayment(allow, minPayment, req, minPayment))
    /\ [][lastCall'.op = "executeWithPayment" /\ lastCall'.payment < minPayment
             => lastCall'.reverted /\ UNCHANGED <<ledger, history>>]_vars

\* executeWithPayment was called with one unit less than minPayment by a
\* request that would have been executed with minPayment, and reverted
BelowFloorReverted ==
    /\ lastCall.op = "executeWithPayment"
    /\ lastCall.payment = minPayment - 1
    /\ lastCall.reverted
    /\ ~executeWithPayment(nonces, bal, allow, minPayment, lastCall.req,
                           lastCall.signature, minPayment).reverted

\* C5: a delivery whose offered payment is below the configured minimum never
\* gets past the consumer's checks: it reaches neither the submission of
\* execute nor any later step.
BelowMinimumRejected ==
    \A w \in Workers :
        worker[w].pc \in {"execute", "wait", "collect", "delete"}
            => ~(Body(w).payment < MinPaymentConfig)

\* C6: a delivery gets past the allowance check only if the allowance of
\* from toward the relayer covers the required payment, nothing is submitted
\* otherwise, and the fee collection moves that same amount from from to the
\* relayer under that same allowance.
AuthorizationCheck ==
    /\ [](\A w \in Workers :
             worker[w].pc \in {"execute", "wait", "collect", "delete"}
                 => /\ worker[w].hasAllowance
                    /\ worker[w].requiredPayment =
                           calculatePayment(Body(w).req.gas, worker[w].gasPrice))
    /\ [][\A w \in Workers :
             /\ worker[w].pc = "allowance" /\ worker'[w].pc = "execute"
                    => allow[<<Body(w).req.from, Relayer>>] >= worker'[w].requiredPayment
             /\ worker[w].pc = "collect" /\ worker'[w].pc = "delete"
                    => /\ allow[<<Body(w).req.from, Relayer>>] >= worker[w].requiredPayment
                       /\ bal'[Relayer] = bal[Relayer] + worker[w].requiredPayment
                       /\ bal'[Body(w).req.from] =
                              bal[Body(w).req.from] - worker[w].requiredPayment
                       /\ \A p \in DOMAIN allow :
                              p # <<Body(w).req.from, Relayer>> => allow'[p] = allow[p]]_vars

\* a genuinely signed request carrying the current nonce was rejected for its
\* allowance toward the relayer, after the fee of an earlier request had been
\* collected under that allowance
AllowanceRejected ==
    \E r \in Results :
        /\ r.error = "Insufficient USDT allowance"
        /\ GenuinelySigned(queue[r.m].body)
        /\ ResultReq(r).nonce = nonces[ResultReq(r).from]
        /\ allow[<<ResultReq(r).from, Relayer>>] = 0
        /\ \E k \in Keys : feeCount[k] = 1

\* C7: execute is at the point of submission, or submitted, only for a
\* delivery whose signature and nonce verified and whose payment passed the
\* policy: not below the minimum and covered by the allowance.
ExecuteOnlyAfterChecks ==
    \A w \in Workers :
        worker[w].pc \in {"execute", "wait"}
            => /\ worker[w].valid
               /\ worker[w].hasAllowance
               /\ Body(w).payment >= MinPaymentConfig

\* C8: when the handler has gone through its records, the message of every
\* record that failed a check before execution has been removed from the queue.
RejectedIsAcknowledged ==
    \A w \in Workers :
        worker[w].pc = "return"
            => \A j \in DOMAIN worker[w].results :
                   worker[w].results[j].error \in
                       {"Invalid signature", "Insufficient USDT allowance"}
                       => queue[worker[w].results[j].m].status = "deleted"

\* C9: a message is deleted only by the invocation handling it, after the
\* execute transaction of its request was confirmed and the fee collected;
\* a record that ends in the catch keeps its message, and when an invocation
\* ends, by returning or not, its undeleted messages are visible again.
DeleteOnlyAfterTerminal ==
    [][\A m \in DOMAIN queue :
          /\ queue[m].status # "deleted" /\ queue'[m].status = "deleted"
                 => \E w \in Workers :
                        /\ worker[w].pc = "delete"
                        /\ Msg(w) = m
                        /\ execCount[Key(Body(w).req)] = 1
                        /\ feeCount[Key(Body(w).req)] = 1
          /\ queue[m].status = "inflight" /\ queue'[m].status # "inflight"
                 => \/ queue'[m].status = "deleted"
                    \/ /\ queue'[m].status = "visible"
                       /\ \E w \in Workers :
                              worker[w].pc # "idle" /\ worker'[w].pc = "idle"]_vars

\* one message was deleted after its request was settled, another one is back
\* in the queue after a delivery that ended otherwise
DeletedAndLeft ==
    \E m, o \in DOMAIN queue :
        /\ queue[m].status = "deleted"
        /\ feeCount[Key(queue[m].body.req)] = 1
        /\ queue[o].status = "visible"
        /\ queue[o].receiveCount >= 1

\* C10: when the handler returns with a record whose forwarded execution
\* succeeded and whose fee collection failed, the message of that record does
\* not become deliverable again.
PaymentFailedNotRetried ==
    [][\A w \in Workers :
          worker[w].pc = "return"
              => \A j \in DOMAIN worker[w].results :
                     /\ worker[w].results[j].error = "payment failed"
                     /\ callOk[Key(ResultReq(worker[w].results[j]))] = 1
                     => ~(/\ queue'[worker[w].results[j].m].status = "visible"
                          /\ queue'[worker[w].results[j].m].receiveCount
                                 < maxReceiveCount)]_vars

\* C11 (as stated): a request whose every attempt times out is dead-lettered
\* after exactly N + 1 attempts, N = maxReceiveCount being the retry budget.
RetryCapPlusOne ==
    \A m \in DOMAIN queue :
        queue[m].status = "dlq" => queue[m].receiveCount = maxReceiveCount + 1

\* C11 (amended): a request whose every attempt times out is attempted exactly
\* maxReceiveCount times, the first attempt included, before it is
\* dead-lettered: it is never delivered more often, and it is not dead-lettered
\* while receives are left.
RetryCap ==
    /\ [](\A m \in DOMAIN queue :
             /\ queue[m].receiveCount <= maxReceiveCount
             /\ queue[m].status = "dlq" => queue[m].receiveCount = maxReceiveCount)
    /\ [][\A m \in DOMAIN queue :
             queue[m].status = "inflight" /\ queue'[m].status = "visible"
                 /\ queue[m].receiveCount < maxReceiveCount
                 => Visible(m)']_vars

\* a request was dead-lettered after maxReceiveCount attempts that all timed
\* out, its execute transaction still unconfirmed
TimedOutDeadLettered ==
    \E m \in DOMAIN queue :
        /\ queue[m].status = "dlq"
        /\ queue[m].receiveCount = maxReceiveCount
        /\ [req |-> queue[m].body.req, signature |-> queue[m].body.signature] \in orphaned
        /\ execCount[Key(queue[m].body.req)] = 0

\* C12: under fair delivery every message accepted into the queue ends deleted
\* or dead-lettered, and stays so; a message is deleted only once its request
\* is settled, and no message leaves the queue in another way.
NoSilence ==
    /\ \A m \in MsgIds :
           (m \in DOMAIN queue)
               ~> (m \in DOMAIN queue /\ queue[m].status \in {"deleted", "dlq"})
    /\ [](\A m \in DOMAIN queue :
             /\ queue[m].status \in {"visible", "inflight", "deleted", "dlq"}
             /\ queue[m].status = "deleted"
                    => feeCount[Key(queue[m].body.req)] = 1)
    /\ [][/\ DOMAIN queue \subseteq DOMAIN queue'
          /\ \A m \in DOMAIN queue :
                 queue[m].status \in {"deleted", "dlq"}
                     => queue'[m].status = queue[m].status]_vars

\* one request ended settled with its message deleted, another one ended in
\* the dead-letter queue
SettledAndDeadLettered ==
    \E m, o \in DOMAIN queue :
        /\ queue[m].status = "deleted"
        /\ queue[o].status = "dlq"

\* C13: the request with nonce n + 1 of an identity is not executing (its
\* execute transaction submitted) while the request with nonce n of that
\* identity is still being processed, executed but its fee not yet collected.
PerIdentityOrdering ==
    \A w, v \in Workers :
        ~(/\ worker[w].pc = "wait"
          /\ worker[v].pc = "collect"
          /\ Body(w).req.from = Body(v).req.from
          /\ Body(w).req.nonce = Body(v).req.nonce + 1
          /\ feeCount[Key(Body(v).req)] = 0)

\* the amount the forwarded call of req moves from the signer to the recipient
TransferAmount(req) == IF req.data = "receiveTokens" THEN TRANSFER_AMOUNT ELSE 0

\* C14: executeWithPayment of a genuinely signed request carrying the signer's
\* current nonce, with payment >= minPayment, the allowances and the balance
\* sufficient, does not revert: the nonce advances by one, the signer pays the
\* transfer amount plus the payment, the forwarder receives the payment and
\* the recipient the transfer amount.
SuccessfulSettlement ==
    [][lastCall'.op = "executeWithPayment"
          => LET req == lastCall'.req
                 payment == lastCall'.payment
             IN  /\ signerOf(req, lastCall'.signature) = req.from
                 /\ req.nonce = nonces[req.from]
                 /\ payment >= minPayment
                 /\ allow[<<req.from, Forwarder>>] >= payment
                 /\ allow[<<req.from, Recipient>>] >= TransferAmount(req)
                 /\ bal[req.from] >= TransferAmount(req) + payment
                 => /\ ~lastCall'.reverted
                    /\ nonces'[req.from] = nonces[req.from] + 1
                    /\ bal'[req.from] = bal[req.from] - TransferAmount(req) - payment
                    /\ bal'[Forwarder] = bal[Forwarder] + payment
                    /\ bal'[Recipient] = bal[Recipient] + TransferAmount(req)]_vars

\* the first request of the signer was settled with a payment equal to
\* minPayment: nonce 1, the payment with the forwarder, the transfer with the
\* recipient
SettledAtFloor ==
    /\ lastCall.op = "executeWithPayment"
    /\ ~lastCall.reverted
    /\ lastCall.payment = minPayment
    /\ minPayment = MinPaymentConfig
    /\ lastCall.req.nonce = 0
    /\ nonces[User] = 1
    /\ bal[Forwarder] = minPayment
    /\ bal[Recipient] = TRANSFER_AMOUNT

\* C15: the recipient called through the forwarder observes the request's
\* from, which is the key that signed the request, and neither the forwarder
\* nor the relayer; called directly it observes its caller, whatever the
\* calldata ends with.
SenderRecovery ==
    /\ lastCall.op \in {"execute", "executeWithPayment"} /\ ~lastCall.reverted
           => /\ lastCall.sender = lastCall.req.from
              /\ lastCall.sender = lastCall.signature.signer
              /\ lastCall.sender \notin {Forwarder, Relayer}
    /\ lastCall.op = "checkSender" => lastCall.sender = lastCall.caller

\* checkSender was executed through executeWithPayment for the user
SenderChecked ==
    /\ lastCall.op = "executeWithPayment"
    /\ ~lastCall.reverted
    /\ lastCall.req.data = "checkSender"
    /\ lastCall.sender = User

\* C17: when an execute transaction of the relay is mined and its forwarded
\* call fails, the signer's nonce is unchanged and the same signed request
\* still passes verify.
RevertKeepsNonce ==
    [][\A w \in Workers :
          /\ worker[w].pc = "wait"
          /\ execCount'[Key(Tx(w).req)] = execCount[Key(Tx(w).req)] + 1
          /\ callOk'[Key(Tx(w).req)] = callOk[Key(Tx(w).req)]
          => /\ nonces'[Tx(w).req.from] = nonces[Tx(w).req.from]
             /\ verify(nonces', Tx(w).req, Tx(w).signature)]_vars

\* C16: an execution whose forwarded call fails counts as a failed attempt:
\* the handler does not go on to settle it, and the message is deleted only
\* once an attempt has confirmed the request's call (the third at the latest),
\* never while its call has not succeeded.
RetryThenSuccess ==
    /\ [][\A w \in Workers :
             /\ worker[w].pc = "wait"
             /\ execCount'[Key(Tx(w).req)] = execCount[Key(Tx(w).req)] + 1
             /\ callOk'[Key(Tx(w).req)] = callOk[Key(Tx(w).req)]
             => worker'[w].pc # "collect"]_vars
    /\ [][\A m \in DOMAIN queue :
             queue[m].status # "deleted" /\ queue'[m].status = "deleted"
                 => /\ callOk'[Key(queue[m].body.req)] = 1
                    /\ queue[m].receiveCount <= maxReceiveCount]_vars

\* C18: the client and the forwarder hash the same typed data (the same six
\* fields under the same domain), so a request the SDK signed with the
\* signer's current nonce passes the forwarder's verify.
SignatureCompatibility ==
    lastCall.op = "submitToRelayer"
        => /\ lastCall.request.nonce = nonces[lastCall.request.from]
           /\ verify(nonces, lastCall.request, lastCall.signature)
           /\ SdkRequestType = ForwardRequestType
           /\ SdkDomain = ForwarderDomain

\* C19: every field the consumer passes to verify and execute is the
\* corresponding field of the message the client submitted.
WireFormat ==
    lastCall.op = "processMetaTransaction"
        => \A f \in ConsumerFields :
              /\ f \in lastCall.present
              /\ lastCall.read[f] = IF f = "signature" THEN lastCall.signature
                                    ELSE Field(lastCall.request, f)

\* C20: in no reachable state does an invocation of the consumer hold the
\* relayer's raw secret key; it is never materialized outside the custodian.
KeyNeverMaterialized ==
    \A w \in Workers : worker[w].relayer.privateKey # RelayerSecret

\* C21: the payment threshold of a request is fixed once it is in the queue:
\* whatever the gas price at a later delivery, the required payment the
\* message is checked against is the one of its earlier deliveries.
ThresholdFixed ==
    [][\A m \in DOMAIN queue :
          queue[m].required # 0 => queue'[m].required = queue[m].required]_vars

\* C22: a delivery that fails because the custodian is unavailable consumes no
\* slot of the retry budget: while every failure is a custodian failure and
\* nothing was sent to the ledger, no message comes closer to the dead-letter
\* queue, and none is dead-lettered.
CustodianFailureKeepsBudget ==
    \A m \in DOMAIN queue :
        /\ queue[m].status # "dlq"
        /\ queue[m].status = "visible" => queue[m].receiveCount = 0

\* C23: the relayer's fee is taken only for a request whose forwarded call
\* was executed and succeeded; no fee is collected for a request whose
\* forwarded call failed or was reverted.
FeeOnlyOnSuccess ==
    \A k \in Keys : feeCount[k] > 0 => callOk[k] > 0

\* C24: verify answers every signature with a value: for a malformed or
\* wrong-length signature and for a digest mismatch it returns false and does
\* not raise, and nothing changes.
VerifyReturnsFalse ==
    /\ [](lastCall.op = "verify" /\ lastCall.signature.signer # lastCall.req.from
              => ~lastCall.raised /\ ~lastCall.valid)
    /\ [][lastCall'.op = "verify" => UNCHANGED <<ledger, history, relay>>]_vars

\* C25: the checks of the consumer (verify, the payment check) leave nonces,
\* balances and allowances as they are, and the nonce registry changes only
\* in a step in which a request's execution succeeded.
ChecksHaveNoEffects ==
    /\ [][\A w \in Workers :
             worker[w].pc \in {"verify", "allowance"} /\ worker'[w] # worker[w]
                 => UNCHANGED <<nonces, bal, allow>>]_vars
    /\ [][nonces' # nonces
             => \E k \in Keys : /\ callOk'[k] = callOk[k] + 1
                                /\ nonces[k[1]] = k[2]
                                /\ nonces'[k[1]] = k[2] + 1]_vars

\* C26: the fee taken from the signer for a request is at most the payment
\* offered in the submitted request; the relay cannot take more.
FeeWithinOffer ==
    [][\A w \in Workers :
          worker[w].pc = "collect"
              => feePaid'[Key(Body(w).req)] - feePaid[Key(Body(w).req)]
                     <= Body(w).payment]_vars

FeesLeaveByWithdrawalOnly ==
    [][/\ bal'[Forwarder] < bal[Forwarder]
              => /\ lastCall'.op = "withdrawPayments"
                 /\ lastCall'.caller = Owner
                 /\ ~lastCall'.reverted
       /\ lastCall'.op = "executeWithPayment" /\ ~lastCall'.reverted
              => bal'[Forwarder] = bal[Forwarder] + lastCall'.payment]_vars

\* C29: setMinPayment, setPaymentToken and withdrawPayments called by another
\* caller than the owner revert and change nothing; the payment token is never
\* the zero address; withdrawPayments to the zero address reverts.
OwnerOnlyAdministration ==
    /\ [](paymentToken # ZeroAddress)
    /\ [][lastCall'.op \in {"setMinPayment", "setPaymentToken", "withdrawPayments"}
             /\ lastCall'.caller # Owner
                 => /\ lastCall'.reverted
                    /\ UNCHANGED <<minPayment, paymentToken, nonces, bal, allow>>]_vars
    /\ [][lastCall'.op = "withdrawPayments" /\ lastCall'.recipient = ZeroAddress
                 => lastCall'.reverted /\ UNCHANGED bal]_vars
    /\ [][lastCall'.op = "setPaymentToken" /\ lastCall'.token = ZeroAddress
                 => lastCall'.reverted /\ UNCHANGED paymentToken]_vars

\* the owner tried to set the zero address as payment token while the
\* forwarder held fees, and the call was rejected
ZeroTokenRejected ==
    /\ lastCall.op = "setPaymentToken"
    /\ lastCall.caller = Owner
    /\ lastCall.token = ZeroAddress
    /\ lastCall.reverted
    /\ paymentToken = Token
    /\ bal[Forwarder] >= MinPaymentConfig

\* C30: the records of a batch are handled independently: when the handler
\* returns, every record of the batch has been handled and has exactly one
\* entry in the results, and a record's failure deletes no message.
BatchIsolation ==
    /\ [](\A w \in Workers :
             worker[w].pc = "return"
                 => \A i \in 1..Len(worker[w].batch) :
                       Cardinality({j \in 1..Len(worker[w].results) :
                                       worker[w].results[j].m = worker[w].batch[i]}) = 1)
    /\ [][\A w \in Workers :
             /\ Len(worker'[w].results) > Len(worker[w].results)
             /\ worker'[w].results[Len(worker'[w].results)].error # "none"
             => \A m \in DOMAIN queue : queue'[m].status = queue[m].status]_vars

====
